---- MODULE Spec2Model ----
(***************************************************************************)
(* Model of the two salt-analytics-framework "process" plugins that        *)
(* aggregate salt job events:                                              *)
(*   saf/process/job_aggregate.py   : the enrichment-aware (grains) variant*)
(*   saf/process/state_aggregate.py : the simple variant                   *)
(* Each pipeline owns a ctx.cache.  One action processes one event, i.e.   *)
(* drives the async generator process() to exhaustion.                     *)
(* Records are Python objects: the field "id" stands for object identity   *)
(* (the waiting_for_grains set holds references, and the waiting record is *)
(* mutated in place before it is yielded).                                 *)
(***************************************************************************)
EXTENDS Integers, Sequences, FiniteSets, TLC

(* ------------------------------ bounds -------------------------------- *)
\* number of events fed to one pipeline in a behaviour of JobSpec or StateSpec
MaxEvents == 5
\* number of events fed to the two pipelines together in a behaviour of Spec
MaxBoth == 3

Jids == {"1", "2"}
Minions == {"A", "B"}
\* stamps of job start events and of job return events: a return can be
\* stamped after or before the start it is correlated with
StartStamps == {10, 30}
RetStamps == {20}
\* the values of data["minions"] of a salt/job/<jid>/new event (lists)
MinionLists == {<< >>, <<"A", "B">>, <<"B", "B">>}
Funs == {"state.apply", "test.ping"}
\* attribute maps (Dict[str, str]) as sets of <<key, value>> pairs
NoGrains == {}
GrainsMaps == {NoGrains, {<<"os", "linux">>}, {<<"os", "bsd">>}}

(* ------------------------------ state --------------------------------- *)
VARIABLES
    watched_jids,        \* job_aggregate: ctx.cache["watched_jids"], jid -> [minions, event]
    grains,              \* job_aggregate: ctx.cache["grains"], minion -> attribute map
    waiting_for_grains,  \* job_aggregate: ctx.cache["waiting_for_grains"], a set of records
    nextId,              \* identity of the next record object constructed by job_aggregate
    forwarded,           \* every record job_aggregate.process has yielded, in order
    state_watched_jids,  \* state_aggregate: ctx.cache["watched_jids"], jid -> start event
    state_forwarded,     \* every record state_aggregate.process has yielded, in order
    completed,           \* state_aggregate: (jid, minion) completions delivered since the jid's last tracked start
    proc,                \* which plugin handled the last event: "job", "state" or "none"
    event,               \* the last event handed to process()
    path,                \* the branch of process() the last event took
    yielded,             \* the records yielded by the last process() call, in order
    raised,              \* the exception the last process() call raised, or "none"
    gen,                 \* the process() generator suspended at a yield inside the release loop, if any
    nev,                 \* number of events processed
    limit                \* number of events the behaviour may process

vars == <<watched_jids, grains, waiting_for_grains, nextId, forwarded,
          state_watched_jids, state_forwarded, completed,
          proc, event, path, yielded, raised, gen, nev, limit>>

jobVars == <<watched_jids, grains, waiting_for_grains, nextId, forwarded>>
stateVars == <<state_watched_jids, state_forwarded, completed>>

(* ------------------------------ events -------------------------------- *)
NewTag(jid) == <<"salt", "job", jid, "new">>
RetTag(jid, minion) == <<"salt", "job", jid, "ret", minion>>
OtherTag == <<"salt", "auth">>

\* fnmatch.fnmatch(tag, "salt/job/*/new") on the "/"-separated segments:
\* "*" matches any text, "/" included
MatchNew(tag) ==
    /\ Len(tag) >= 4
    /\ tag[1] = "salt"
    /\ tag[2] = "job"
    /\ tag[Len(tag)] = "new"

\* fnmatch.fnmatch(tag, "salt/job/*/ret/*")
MatchRet(tag) ==
    /\ Len(tag) >= 5
    /\ tag[1] = "salt"
    /\ tag[2] = "job"
    /\ \E i \in 4..(Len(tag) - 1) : tag[i] = "ret"

\* tag.split("/")[2] and split_tag[-1]
TagJid(tag) == tag[3]
TagMinion(tag) == tag[Len(tag)]

\* EventBusCollectedEvent instances
JobNewEvents ==
    {[type |-> "bus", tag |-> NewTag(j), stamp |-> s, data |-> [minions |-> l]] :
        j \in Jids, s \in StartStamps, l \in MinionLists}
StateNewEvents ==
    {[type |-> "bus", tag |-> NewTag(j), stamp |-> s, data |-> [fun |-> f]] :
        j \in Jids, s \in StartStamps, f \in Funs}
RetEvents ==
    {[type |-> "bus", tag |-> RetTag(j, m), stamp |-> s, data |-> [jid |-> j, id |-> m]] :
        j \in Jids, m \in Minions, s \in RetStamps}
OtherEvents ==
    {[type |-> "bus", tag |-> OtherTag, stamp |-> s, data |-> [jid |-> "0", id |-> "0"]] :
        s \in RetStamps}
\* GrainsCollectedEvent instances
GrainsEvents ==
    {[type |-> "grains", minion |-> m, grains |-> g] : m \in Minions, g \in GrainsMaps}

NoEvent == [type |-> "none"]

\* no generator is suspended inside the release loop
NoGen == [pc |-> "none"]

(* --------------------------- job_aggregate ---------------------------- *)
\* set(salt_event.data["minions"])
SetOf(list) == {list[i] : i \in DOMAIN list}

\* a version of Watch without the "if jid not in" condition: the latest start wins
WatchOverwrite(w, jid, ev) ==
    [j \in DOMAIN w \cup {jid} |->
        IF j = jid THEN [minions |-> SetOf(ev.data.minions), event |-> ev] ELSE w[j]]

\* ctx.cache["watched_jids"][jid] = {"minions": ..., "event": salt_event}, only if jid is absent
Watch(w, jid, ev) ==
    IF jid \in DOMAIN w
    THEN w
    ELSE [j \in DOMAIN w \cup {jid} |->
            IF j = jid THEN [minions |-> SetOf(ev.data.minions), event |-> ev] ELSE w[j]]

\* a version of Unwatch that forgets the job at its first completion
UnwatchAtFirst(w, jid, minion) ==
    [j \in DOMAIN w \ {jid} |-> w[j]]

\* minions.remove(minion_id), then pop(jid) when no minion is left
Unwatch(w, jid, minion) ==
    IF w[jid].minions \ {minion} = {}
    THEN [j \in DOMAIN w \ {jid} |-> w[j]]
    ELSE [w EXCEPT ![jid].minions = @ \ {minion}]

\* ctx.cache.get("grains", {}).get(minion_id, {})
LookupGrains(g, minion) == IF minion \in DOMAIN g THEN g[minion] ELSE NoGrains

\* a version of Truthy that only asks whether a lookup result exists
TruthyNotNone(g) == TRUE

\* truth value of a dict: "if grains:"
Truthy(g) == g # {}

\* a version of Construct with the operands of the subtraction swapped
ConstructSwapped(id, ev, start, minion, g) ==
    [id |-> id, data |-> ev.data, start_time |-> start.stamp, end_time |-> ev.stamp,
     duration |-> start.stamp - ev.stamp, minion_id |-> minion, grains |-> g]

\* StateAggregateCollectedEvent.construct(...)
Construct(id, ev, start, minion, g) ==
    [id |-> id, data |-> ev.data, start_time |-> start.stamp, end_time |-> ev.stamp,
     duration |-> ev.stamp - start.stamp, minion_id |-> minion, grains |-> g]

\* ctx.cache["grains"][event.minion] = event.grains
StoreGrains(g, minion, attrs) ==
    [m \in DOMAIN g \cup {minion} |-> IF m = minion THEN attrs ELSE g[m]]

\* a version of Selected without the minion_id condition
SelectedAll(waiting, minion) == waiting

\* a version of Selected whose condition never matches
SelectedNone(waiting, minion) == {}

\* the records the list comprehension selects: agg_event.minion_id == event.minion
Selected(waiting, minion) == {r \in waiting : r.minion_id = minion}

\* a version of SetGrains that forgets the assignment
SetGrainsForgotten(r, attrs) == r

\* a version of SetGrains that also resets the end of the run to its start
SetGrainsAndEnd(r, attrs) == [r EXCEPT !.grains = attrs, !.end_time = r.start_time]

\* event_with_grains.grains = event.grains
SetGrains(r, attrs) == [r EXCEPT !.grains = attrs]

\* the orders in which iterating a Python set can deliver its members
Orders(S) ==
    {q \in [1..Cardinality(S) -> S] : \A i, j \in 1..Cardinality(S) : i # j => q[i] # q[j]}

\* the loop body applied to to_remove, in iteration order
Attach(q, attrs) == [i \in DOMAIN q |-> SetGrains(q[i], attrs)]

\* a version of Defer with one slot per minion: the latest record wins
DeferSingleSlot(waiting, ret) ==
    {r \in waiting : r.minion_id # ret.minion_id} \cup {ret}

\* ctx.cache["waiting_for_grains"].add(ret)
Defer(waiting, ret) == waiting \cup {ret}

\* a version of Remaining that forgets waiting.remove
RemainingAll(waiting, minion) == waiting

\* waiting.remove(event_with_grains), for every selected record
Remaining(waiting, minion) == waiting \ Selected(waiting, minion)

Handled(p, ev, br, out, exc) ==
    /\ nev < limit
    /\ UNCHANGED limit
    /\ UNCHANGED gen
    /\ proc' = p
    /\ event' = ev
    /\ path' = br
    /\ yielded' = out
    /\ raised' = exc
    /\ nev' = nev + 1

\* job_aggregate.process, tag matches salt/job/*/new
JobNew(ev) ==
    /\ ev.type = "bus" /\ MatchNew(ev.tag)
    /\ watched_jids' = Watch(watched_jids, TagJid(ev.tag), ev)
    /\ UNCHANGED <<grains, waiting_for_grains, nextId, forwarded>>
    /\ UNCHANGED stateVars
    /\ Handled("job", ev,
               IF TagJid(ev.tag) \in DOMAIN watched_jids THEN "new_ignored" ELSE "new_tracked",
               << >>, "none")

\* a version of JobRetUntracked that correlates the completion with itself
\* (start = end) and defers the record
JobRetSelfStart(ev) ==
    /\ waiting_for_grains' =
          Defer(waiting_for_grains, Construct(nextId, ev, ev, TagMinion(ev.tag), NoGrains))
    /\ nextId' = nextId + 1
    /\ UNCHANGED <<watched_jids, grains, forwarded>>
    /\ Handled("job", ev, "ret_untracked", << >>, "none")

\* job_aggregate.process, salt/job/*/ret/* for a jid that is not in watched_jids:
\* the body of "if jid in ctx.cache[...]" is skipped
JobRetUntracked(ev) ==
    /\ UNCHANGED jobVars
    /\ Handled("job", ev, "ret_untracked", << >>, "none")

\* job_aggregate.process, tag matches salt/job/*/ret/*
JobRet(ev) ==
    LET jid == TagJid(ev.tag)
        minion_id == TagMinion(ev.tag)
    IN
    /\ ev.type = "bus" /\ ~MatchNew(ev.tag) /\ MatchRet(ev.tag)
    /\ UNCHANGED stateVars
    /\ IF jid \notin DOMAIN watched_jids
       THEN JobRetUntracked(ev)
       ELSE IF minion_id \notin watched_jids[jid].minions
       THEN \* set.remove raises KeyError before anything is mutated
            /\ UNCHANGED jobVars
            /\ Handled("job", ev, "ret_keyerror", << >>, "KeyError")
       ELSE LET g == LookupGrains(grains, minion_id)
                ret == Construct(nextId, ev, watched_jids[jid].event, minion_id, g)
            IN
            /\ watched_jids' = Unwatch(watched_jids, jid, minion_id)
            /\ nextId' = nextId + 1
            /\ UNCHANGED grains
            /\ IF Truthy(g)
               THEN /\ forwarded' = Append(forwarded, ret)
                    /\ UNCHANGED waiting_for_grains
                    /\ Handled("job", ev, "ret_yield", <<ret>>, "none")
               ELSE /\ waiting_for_grains' = Defer(waiting_for_grains, ret)
                    /\ UNCHANGED forwarded
                    /\ Handled("job", ev, "ret_defer", << >>, "none")

\* job_aggregate.process, GrainsCollectedEvent
JobGrains(ev) ==
    /\ ev.type = "grains"
    /\ grains' = StoreGrains(grains, ev.minion, ev.grains)
    /\ \E q \in Orders(Selected(waiting_for_grains, ev.minion)) :
          /\ waiting_for_grains' = Remaining(waiting_for_grains, ev.minion)
          /\ forwarded' = forwarded \o Attach(q, ev.grains)
          /\ Handled("job", ev, "grains", Attach(q, ev.grains), "none")
    /\ UNCHANGED <<watched_jids, nextId>>
    /\ UNCHANGED stateVars

\* job_aggregate.process, an event bus event whose tag matches neither pattern
JobOther(ev) ==
    /\ ev.type = "bus" /\ ~MatchNew(ev.tag) /\ ~MatchRet(ev.tag)
    /\ UNCHANGED jobVars
    /\ UNCHANGED stateVars
    /\ Handled("job", ev, "other", << >>, "none")

(* -------------------------- state_aggregate --------------------------- *)
\* a version of StateWatch that keeps the first entry of a jid
StateWatchKeepFirst(w, jid, ev) ==
    [j \in DOMAIN w \cup {jid} |-> IF j \in DOMAIN w THEN w[j] ELSE ev]

\* ctx.cache["watched_jids"][jid] = salt_event
StateWatch(w, jid, ev) ==
    [j \in DOMAIN w \cup {jid} |-> IF j = jid THEN ev ELSE w[j]]

\* StateAggregateCollectedEvent.construct(...) of state_aggregate: no grains field
StateConstruct(ev, start, minion) ==
    [data |-> ev.data, start_time |-> start.stamp, end_time |-> ev.stamp,
     duration |-> ev.stamp - start.stamp, minion_id |-> minion]

\* a version of StateNew without the data.get("fun") == "state.apply" condition
StateNewAnyFun(ev) ==
    /\ ev.type = "bus" /\ MatchNew(ev.tag)
    /\ UNCHANGED jobVars
    /\ state_watched_jids' = StateWatch(state_watched_jids, TagJid(ev.tag), ev)
    /\ completed' = {c \in completed : c[1] # TagJid(ev.tag)}
    /\ UNCHANGED state_forwarded
    /\ Handled("state", ev, "new_tracked", << >>, "none")

\* state_aggregate.process, tag matches salt/job/*/new
StateNew(ev) ==
    /\ ev.type = "bus" /\ MatchNew(ev.tag)
    /\ UNCHANGED jobVars
    /\ IF ev.data.fun = "state.apply"
       THEN /\ state_watched_jids' = StateWatch(state_watched_jids, TagJid(ev.tag), ev)
            /\ completed' = {c \in completed : c[1] # TagJid(ev.tag)}
            /\ UNCHANGED state_forwarded
            /\ Handled("state", ev, "new_tracked", << >>, "none")
       ELSE /\ UNCHANGED stateVars
            /\ Handled("state", ev, "new_skipped", << >>, "none")

\* state_aggregate.process, tag matches salt/job/*/ret/*
StateRet(ev) ==
    LET jid == TagJid(ev.tag)
        minion_id == TagMinion(ev.tag)
    IN
    /\ ev.type = "bus" /\ ~MatchNew(ev.tag) /\ MatchRet(ev.tag)
    /\ UNCHANGED jobVars
    /\ IF jid \in DOMAIN state_watched_jids
       THEN LET ret == StateConstruct(ev, state_watched_jids[jid], minion_id)
            IN
            /\ state_forwarded' = Append(state_forwarded, ret)
            /\ completed' = completed \cup {<<jid, minion_id>>}
            /\ UNCHANGED state_watched_jids
            /\ Handled("state", ev, "ret_yield", <<ret>>, "none")
       ELSE /\ UNCHANGED stateVars
            /\ Handled("state", ev, "ret_untracked", << >>, "none")

\* state_aggregate.process, any other event
StateOther(ev) ==
    /\ IF ev.type = "bus" THEN ~MatchNew(ev.tag) /\ ~MatchRet(ev.tag) ELSE TRUE
    /\ UNCHANGED stateVars
    /\ UNCHANGED jobVars
    /\ Handled("state", ev, "other", << >>, "none")

(* --------------------------- specification ---------------------------- *)
Start ==
    /\ watched_jids = << >>
    /\ grains = << >>
    /\ waiting_for_grains = {}
    /\ nextId = 1
    /\ forwarded = << >>
    /\ state_watched_jids = << >>
    /\ state_forwarded = << >>
    /\ completed = {}
    /\ proc = "none"
    /\ event = NoEvent
    /\ path = "init"
    /\ yielded = << >>
    /\ raised = "none"
    /\ gen = NoGen
    /\ nev = 0

\* the enrichment-aware pipeline
JobNext ==
    \/ \E ev \in JobNewEvents : JobNew(ev)
    \/ \E ev \in RetEvents : JobRet(ev)
    \/ \E ev \in GrainsEvents : JobGrains(ev)
    \/ \E ev \in OtherEvents : JobOther(ev)

\* the simple pipeline
StateNext ==
    \/ \E ev \in StateNewEvents : StateNew(ev)
    \/ \E ev \in RetEvents : StateRet(ev)
    \/ \E ev \in OtherEvents \cup GrainsEvents : StateOther(ev)

\* both pipelines, each with its own cache, fed in any interleaving
Init == Start /\ limit = MaxBoth
Next == JobNext \/ StateNext
Spec == Init /\ [][Next]_vars

\* the enrichment-aware pipeline alone
JobInit == Start /\ limit = MaxEvents
JobSpec == JobInit /\ [][JobNext]_vars

\* the simple pipeline alone
StateInit == Start /\ limit = MaxEvents
StateSpec == StateInit /\ [][StateNext]_vars

(* ----------------- the release loop, one yield at a time --------------- *)
\* job_aggregate.process, GrainsCollectedEvent, from the call to its first
\* suspension: the store is updated, to_remove is built, and the first record
\* is assigned its grains, removed from the set and yielded; the generator
\* returns at once when nothing is selected
GrainsCall(ev) ==
    /\ ev.type = "grains"
    /\ gen = NoGen
    /\ nev < limit
    /\ grains' = StoreGrains(grains, ev.minion, ev.grains)
    /\ \E q \in Orders(Selected(waiting_for_grains, ev.minion)) :
          IF q = << >>
          THEN /\ UNCHANGED <<waiting_for_grains, forwarded, gen>>
               /\ yielded' = << >>
               /\ path' = "grains"
          ELSE /\ waiting_for_grains' = waiting_for_grains \ {q[1]}
               /\ forwarded' = Append(forwarded, SetGrains(q[1], ev.grains))
               /\ yielded' = <<SetGrains(q[1], ev.grains)>>
               /\ gen' = [pc |-> "yield", minion |-> ev.minion, attrs |-> ev.grains,
                           todo |-> Tail(q)]
               /\ path' = "grains_yield"
    /\ proc' = "job"
    /\ event' = ev
    /\ raised' = "none"
    /\ nev' = nev + 1
    /\ UNCHANGED <<watched_jids, nextId, limit>>
    /\ UNCHANGED stateVars

\* the consumer asks the suspended generator for its next record: the loop
\* goes on with the next member of to_remove, or the generator returns
GrainsResume ==
    /\ gen # NoGen
    /\ IF gen.todo = << >>
       THEN /\ gen' = NoGen
            /\ path' = "grains"
            /\ UNCHANGED <<waiting_for_grains, forwarded, yielded, raised>>
       ELSE IF Head(gen.todo) \in waiting_for_grains
       THEN /\ waiting_for_grains' = waiting_for_grains \ {Head(gen.todo)}
            /\ forwarded' = Append(forwarded, SetGrains(Head(gen.todo), gen.attrs))
            /\ yielded' = Append(yielded, SetGrains(Head(gen.todo), gen.attrs))
            /\ gen' = [gen EXCEPT !.todo = Tail(gen.todo)]
            /\ path' = "grains_yield"
            /\ UNCHANGED raised
       ELSE \* waiting.remove raises KeyError
            /\ raised' = "KeyError"
            /\ gen' = NoGen
            /\ path' = "grains_keyerror"
            /\ UNCHANGED <<waiting_for_grains, forwarded, yielded>>
    /\ UNCHANGED <<watched_jids, grains, nextId, proc, event, nev, limit>>
    /\ UNCHANGED stateVars

\* the enrichment-aware pipeline with the suspension points of the release
\* loop: the consumer exhausts one generator before the next event is handed in
YieldNext ==
    \/ \E ev \in JobNewEvents : gen = NoGen /\ JobNew(ev)
    \/ \E ev \in RetEvents : gen = NoGen /\ JobRet(ev)
    \/ \E ev \in OtherEvents : gen = NoGen /\ JobOther(ev)
    \/ \E ev \in GrainsEvents : GrainsCall(ev)
    \/ GrainsResume

YieldInit == Start /\ limit = MaxEvents
YieldSpec == YieldInit /\ [][YieldNext]_vars

(* ------------------------------ claims -------------------------------- *)
\* the vocabulary of the claims: an event is JobCompleted(jid, minion) when its
\* tag is salt/job/<jid>/ret/<minion>, EnrichmentUpdated(minion, g) when it is
\* a grains event
IsCompleted(ev, jid, minion) == ev.type = "bus" /\ ev.tag = RetTag(jid, minion)
IsStarted(ev, jid) == ev.type = "bus" /\ ev.tag = NewTag(jid)
IsEnrichment(ev, minion) == ev.type = "grains" /\ ev.minion = minion

\* the record objects of a sequence / the identities of a collection of records
Range(q) == {q[i] : i \in DOMAIN q}
Ids(S) == {r.id : r \in S}

\* C1: (job_aggregate) a JobCompleted(jid, minion) for a tracked jid whose
\* expected set does not contain minion is a silent no-op: nothing is emitted
\* or deferred, the registry is unchanged and no error is raised.
C1_UnexpectedResponderIsNoOp ==
    [][\A j \in Jids, m \in Minions :
          (/\ proc' = "job"
           /\ IsCompleted(event', j, m)
           /\ j \in DOMAIN watched_jids
           /\ m \notin watched_jids[j].minions)
          => (/\ yielded' = << >>
              /\ UNCHANGED jobVars
              /\ raised' = "none")]_vars

\* C2: (job_aggregate) a job started with a non-empty responder set R stays in
\* watched_jids while members of R are outstanding (each valid completion
\* removes exactly that responder), and it is removed in exactly the step that
\* processes the completion of the last remaining member; no other event
\* removes it.
C2_RemovedByLastCompletion ==
    [][\A j \in DOMAIN watched_jids :
          LET R == SetOf(watched_jids[j].event.data.minions)
              left == watched_jids[j].minions
          IN
          \* the expected set is what is left of R, and is non-empty if R is
          /\ left \subseteq R
          /\ (R # {} => left # {})
          \* a valid completion while others are outstanding keeps the job
          /\ \A m \in left :
                (proc' = "job" /\ IsCompleted(event', j, m) /\ left # {m})
                => (/\ j \in DOMAIN watched_jids'
                    /\ watched_jids'[j].minions = left \ {m}
                    /\ watched_jids'[j].event = watched_jids[j].event)
          \* the completion of the last remaining member removes it
          /\ \A m \in left :
                (proc' = "job" /\ IsCompleted(event', j, m) /\ left = {m})
                => j \notin DOMAIN watched_jids'
          \* nothing else does
          /\ j \notin DOMAIN watched_jids'
                => \E m \in Minions :
                      proc' = "job" /\ IsCompleted(event', j, m) /\ left = {m}]_vars

\* C2 witness: Start(j, [A, B]), then the completions of both responders; the
\* second one has just removed the job
C2_Witness ==
    /\ nev = 3
    /\ proc = "job"
    /\ path \in {"ret_yield", "ret_defer"}
    /\ TagJid(event.tag) \notin DOMAIN watched_jids
    /\ \E r1, r2 \in Range(forwarded) \cup waiting_for_grains :
          /\ r1.data.jid = TagJid(event.tag) /\ r2.data.jid = TagJid(event.tag)
          /\ r1.minion_id # r2.minion_id

\* C3: in both variants a JobCompleted whose jid is not in the registry emits
\* nothing, defers nothing and leaves registry, enrichment store and pending
\* set unchanged.
C3_UntrackedCompletionIsNoOp ==
    [][\A j \in Jids, m \in Minions :
          /\ (proc' = "job" /\ IsCompleted(event', j, m) /\ j \notin DOMAIN watched_jids)
             => (yielded' = << >> /\ raised' = "none" /\ UNCHANGED jobVars)
          /\ (proc' = "state" /\ IsCompleted(event', j, m)
                /\ j \notin DOMAIN state_watched_jids)
             => (/\ yielded' = << >> /\ raised' = "none"
                 /\ UNCHANGED <<state_watched_jids, state_forwarded>>)]_vars

\* C3 witness: a late duplicate; the record of this (jid, minion) exists already
\* and the jid is no longer tracked
C3_Witness ==
    /\ proc = "job"
    /\ path = "ret_untracked"
    /\ \E r \in Range(forwarded) \cup waiting_for_grains :
          r.data.jid = TagJid(event.tag) /\ r.minion_id = TagMinion(event.tag)

\* a JobCompleted(j, m) that job_aggregate correlates: j is tracked and m is expected
ValidCompletion(ev, j, m) ==
    /\ IsCompleted(ev, j, m)
    /\ j \in DOMAIN watched_jids
    /\ m \in watched_jids[j].minions

\* C4: (job_aggregate) if at least one EnrichmentUpdated for the responder was
\* processed before its valid completion, the record is emitted in the step of
\* the completion, is not placed in the pending set, and carries the
\* attributes of the most recent EnrichmentUpdated for that responder (the
\* store keeps exactly the last event's map).
C4_KnownEnrichmentEmitsAtOnce ==
    [][/\ \A j \in Jids, m \in Minions :
            (proc' = "job" /\ ValidCompletion(event', j, m) /\ m \in DOMAIN grains)
            => (/\ Len(yielded') = 1
                /\ yielded'[1].minion_id = m
                /\ yielded'[1].grains = grains[m]
                /\ forwarded' = Append(forwarded, yielded'[1])
                /\ waiting_for_grains' = waiting_for_grains)
       /\ \A m \in Minions :
            (proc' = "job" /\ IsEnrichment(event', m))
            => (m \in DOMAIN grains' /\ grains'[m] = event'.grains)]_vars

\* C5: (job_aggregate) a valid completion of a responder for which no
\* enrichment is known emits nothing and defers its record; a pending record
\* is emitted in the step of the next EnrichmentUpdated for its responder, and
\* by no other event (until then it stays pending).
C5_DeferredUntilEnrichment ==
    [][/\ \A j \in Jids, m \in Minions :
            (proc' = "job" /\ ValidCompletion(event', j, m) /\ m \notin DOMAIN grains)
            => (/\ yielded' = << >>
                /\ forwarded' = forwarded
                /\ \E r \in waiting_for_grains' :
                      /\ r.id \notin Ids(waiting_for_grains)
                      /\ r.minion_id = m /\ r.data = event'.data
                      /\ waiting_for_grains' = waiting_for_grains \cup {r})
       /\ \A r \in waiting_for_grains :
            IF proc' = "job" /\ IsEnrichment(event', r.minion_id)
            THEN /\ r.id \in Ids(Range(yielded'))
                 /\ r.id \notin Ids(waiting_for_grains')
            ELSE /\ r.id \notin Ids(Range(yielded'))
                 /\ r.id \notin Ids(Range(forwarded'))
                 /\ r \in waiting_for_grains']_vars

\* C5 witness: Start, JobCompleted with no enrichment known, EnrichmentUpdated:
\* the third event has just released the deferred record
C5_Witness ==
    /\ nev = 3
    /\ path = "grains"
    /\ Len(yielded) = 1
    /\ yielded[1].minion_id = event.minion
    /\ forwarded = yielded

\* the states of the end-to-end scenario of C6
Job1AB(w) == DOMAIN w = {"1"} /\ w["1"].event.data.minions = <<"A", "B">>
C6_AfterCompletedA ==
    /\ nev = 2 /\ proc = "job"
    /\ IsCompleted(event, "1", "A")
    /\ Job1AB(watched_jids) /\ watched_jids["1"].minions = {"B"}
    /\ DOMAIN grains = {}
C6_AfterEnrichedA ==
    /\ nev = 3 /\ proc = "job"
    /\ IsEnrichment(event, "A") /\ event.grains = {<<"os", "linux">>}
    /\ Job1AB(watched_jids) /\ watched_jids["1"].minions = {"B"}
    /\ DOMAIN grains = {"A"}
C6_CompletedBKnown ==
    /\ proc' = "job" /\ IsCompleted(event', "1", "B")
    /\ "1" \in DOMAIN watched_jids /\ watched_jids["1"].minions = {"B"}
    /\ LookupGrains(grains, "B") = {<<"os", "bsd">>}
C6_EmitsBAndRemoves ==
    /\ Len(yielded') = 1
    /\ yielded'[1].minion_id = "B"
    /\ yielded'[1].grains = {<<"os", "bsd">>}
    /\ "1" \notin DOMAIN watched_jids'

\* C6 as stated: after JobStarted(1, {A,B}), JobCompleted(1,A) with no
\* enrichment known emits the record for A at once with empty attributes; the
\* following EnrichmentUpdated(A, {os: linux}) emits nothing; JobCompleted(1,B)
\* after EnrichmentUpdated(B, {os: bsd}) emits B's record with {os: bsd} and
\* removes job 1.
C6_ScenarioAsStated ==
    [][/\ C6_AfterCompletedA'
            => (/\ Len(yielded') = 1
                /\ yielded'[1].minion_id = "A"
                /\ yielded'[1].grains = NoGrains
                /\ waiting_for_grains' = {})
       /\ C6_AfterEnrichedA' => yielded' = << >>
       /\ C6_CompletedBKnown => C6_EmitsBAndRemoves]_vars

\* C6 amended: JobCompleted(1,A) with no enrichment known emits nothing and
\* defers the record for A; the following EnrichmentUpdated(A, {os: linux})
\* emits that record with {os: linux}; JobCompleted(1,B) after
\* EnrichmentUpdated(B, {os: bsd}) emits B's record with {os: bsd} and
\* removes job 1.
C6_Scenario ==
    [][/\ C6_AfterCompletedA'
            => (/\ yielded' = << >>
                /\ forwarded' = << >>
                /\ \E r \in waiting_for_grains' :
                      /\ waiting_for_grains' = {r}
                      /\ r.minion_id = "A" /\ r.grains = NoGrains)
       /\ C6_AfterEnrichedA'
            => (/\ Len(yielded') = 1
                /\ yielded'[1].minion_id = "A"
                /\ yielded'[1].grains = {<<"os", "linux">>}
                /\ forwarded' = yielded'
                /\ waiting_for_grains' = {})
       /\ C6_CompletedBKnown => C6_EmitsBAndRemoves]_vars

\* C6 witness: the five events of the scenario have been processed
C6_Witness ==
    /\ nev = 5 /\ proc = "job" /\ path = "ret_yield"
    /\ IsCompleted(event, "1", "B")
    /\ DOMAIN watched_jids = {}
    /\ waiting_for_grains = {}
    /\ nextId = 3
    /\ Len(forwarded) = 2
    /\ forwarded[1].minion_id = "A" /\ forwarded[1].grains = {<<"os", "linux">>}
    /\ forwarded[2].minion_id = "B" /\ forwarded[2].grains = {<<"os", "bsd">>}
    /\ forwarded[1].data.jid = "1" /\ forwarded[2].data.jid = "1"
    /\ yielded = <<forwarded[2]>>

\* C7: (job_aggregate) records deferred for the same responder are all kept
\* (deferring one more neither drops nor changes the others), and one
\* EnrichmentUpdated for that responder emits every one of them, each with the
\* attribute map of that event.
C7_AllDeferredAreReleased ==
    [][/\ \A j \in Jids, m \in Minions :
            (/\ proc' = "job" /\ ValidCompletion(event', j, m)
             /\ ~Truthy(LookupGrains(grains, m)))
            => (/\ waiting_for_grains \subseteq waiting_for_grains'
                /\ Cardinality(waiting_for_grains') = Cardinality(waiting_for_grains) + 1)
       /\ \A m \in Minions :
            (proc' = "job" /\ IsEnrichment(event', m))
            => LET sel == {r \in waiting_for_grains : r.minion_id = m}
               IN /\ Len(yielded') = Cardinality(sel)
                  /\ Range(yielded') = {[r EXCEPT !.grains = event'.grains] : r \in sel}]_vars

\* C7 witness: one EnrichmentUpdated has just released the records of two
\* different jobs for the same responder
C7_Witness ==
    /\ path = "grains"
    /\ Len(yielded) = 2
    /\ yielded[1].data.jid # yielded[2].data.jid
    /\ yielded[1].minion_id = event.minion /\ yielded[2].minion_id = event.minion
    /\ yielded[1].grains = event.grains /\ yielded[2].grains = event.grains

\* C8: (job_aggregate) the records one EnrichmentUpdated releases are emitted
\* in the order in which they were deferred (record identities are allocated
\* in construction order, which is deferral order).
C8_ReleasedInDeferralOrder ==
    [][(proc' = "job" /\ event'.type = "grains")
          => \A i, k \in DOMAIN yielded' :
                i < k => yielded'[i].id < yielded'[k].id]_vars

\* C9: (job_aggregate) every record is emitted at most once: no record object
\* occurs twice in the emitted stream, and no emitted record is (still) in the
\* pending set.
C9_EmittedAtMostOnce ==
    /\ \A i, k \in DOMAIN forwarded : i # k => forwarded[i].id # forwarded[k].id
    /\ Ids(Range(forwarded)) \cap Ids(waiting_for_grains) = {}

\* C9 witness: a record was released by one EnrichmentUpdated, and a second
\* EnrichmentUpdated for the same responder has just emitted nothing
C9_Witness ==
    /\ nev = 4
    /\ path = "grains"
    /\ yielded = << >>
    /\ Len(forwarded) = 1
    /\ forwarded[1].minion_id = event.minion
    /\ forwarded[1].grains # event.grains

\* C10: (state_aggregate) for a tracked job, the first JobCompleted of a
\* responder emits exactly one record and every later JobCompleted for the
\* same (jid, minion) emits nothing.
C10_OneRecordPerResponder ==
    [][\A j \in Jids, m \in Minions :
          (/\ proc' = "state" /\ IsCompleted(event', j, m)
           /\ j \in DOMAIN state_watched_jids)
          => IF <<j, m>> \in completed
             THEN yielded' = << >> /\ state_forwarded' = state_forwarded
             ELSE Len(yielded') = 1 /\ yielded'[1].minion_id = m]_vars

\* C11: (state_aggregate) a JobCompleted(jid, minion) emits a record (exactly
\* one, in the same step, with minion_id = minion) if and only if an earlier
\* JobStarted for jid had fun = "state.apply": a jid enters the registry only
\* by such a start and never leaves it, a start with another fun leaves the
\* registry as it is, and a completion emits iff its jid is in the registry.
C11_EmitsIffStateApplyStarted ==
    [][/\ \A j \in Jids :
            \* tracked only by a state.apply start, and then for good
            /\ (j \in DOMAIN state_watched_jids' /\ j \notin DOMAIN state_watched_jids)
               => (/\ proc' = "state" /\ IsStarted(event', j)
                   /\ event'.data.fun = "state.apply")
            /\ j \in DOMAIN state_watched_jids => j \in DOMAIN state_watched_jids'
            /\ (proc' = "state" /\ IsStarted(event', j))
               => IF event'.data.fun = "state.apply"
                  THEN j \in DOMAIN state_watched_jids'
                  ELSE state_watched_jids' = state_watched_jids /\ yielded' = << >>
            /\ j \in DOMAIN state_watched_jids
               => state_watched_jids[j].data.fun = "state.apply"
       /\ \A j \in Jids, m \in Minions :
            (proc' = "state" /\ IsCompleted(event', j, m))
            => IF j \in DOMAIN state_watched_jids
               THEN /\ Len(yielded') = 1
                    /\ yielded'[1].minion_id = m
                    /\ state_forwarded' = Append(state_forwarded, yielded'[1])
               ELSE yielded' = << >> /\ state_forwarded' = state_forwarded]_vars

\* C11 witness: JobStarted(jid, fun = state.apply), then JobCompleted(jid, m)
\* has just emitted the record of m
C11_Witness ==
    /\ nev = 2 /\ proc = "state" /\ path = "ret_yield"
    /\ state_watched_jids[TagJid(event.tag)].data.fun = "state.apply"
    /\ Len(yielded) = 1
    /\ yielded[1].minion_id = TagMinion(event.tag)
    /\ state_forwarded = yielded

\* the record a JobCompleted step of job_aggregate has built: yielded, or
\* added to the pending set
Built == Range(yielded') \cup (waiting_for_grains' \ waiting_for_grains)

\* C12: (job_aggregate) a JobStarted for a jid that is already tracked is
\* ignored: the stored start event and the remaining expected set (and all
\* the rest of the cache) are unchanged and nothing is emitted; a record built
\* for a tracked job carries the stamp of the stored, i.e. first, start.
C12_DuplicateStartIgnored ==
    [][\A j \in Jids :
          /\ (proc' = "job" /\ IsStarted(event', j) /\ j \in DOMAIN watched_jids)
             => (/\ watched_jids' = watched_jids
                 /\ UNCHANGED <<grains, waiting_for_grains, forwarded>>
                 /\ yielded' = << >> /\ raised' = "none")
          \* while a job is tracked its stored start event never changes
          /\ (j \in DOMAIN watched_jids /\ j \in DOMAIN watched_jids')
             => watched_jids'[j].event = watched_jids[j].event
          /\ \A m \in Minions :
                (proc' = "job" /\ ValidCompletion(event', j, m))
                => (/\ Built # {}
                    /\ \A r \in Built : r.start_time = watched_jids[j].event.stamp)]_vars

\* C12 witness: a second JobStarted for a tracked jid, stamped differently
\* from the stored start, has just been ignored
C12_Witness ==
    /\ proc = "job" /\ path = "new_ignored"
    /\ TagJid(event.tag) \in DOMAIN watched_jids
    /\ watched_jids[TagJid(event.tag)].event.stamp # event.stamp

\* C13: (state_aggregate) a JobStarted with fun = "state.apply" overwrites the
\* entry of its jid (other entries untouched), so a record emitted afterwards
\* carries the stamp of the most recent such start; a start that is already
\* the stored one leaves the registry as it is.
C13_LatestStartWins ==
    [][\A j \in Jids :
          /\ (/\ proc' = "state" /\ IsStarted(event', j)
               /\ event'.data.fun = "state.apply")
             => (/\ DOMAIN state_watched_jids' = DOMAIN state_watched_jids \cup {j}
                 /\ state_watched_jids'[j] = event'
                 /\ \A k \in DOMAIN state_watched_jids \ {j} :
                       state_watched_jids'[k] = state_watched_jids[k]
                 /\ (j \in DOMAIN state_watched_jids /\ state_watched_jids[j] = event')
                       => state_watched_jids' = state_watched_jids)
          \* nothing but such a start changes the entry
          /\ (/\ j \in DOMAIN state_watched_jids
               /\ ~(proc' = "state" /\ IsStarted(event', j)))
             => (j \in DOMAIN state_watched_jids'
                 /\ state_watched_jids'[j] = state_watched_jids[j])
          /\ \A m \in Minions :
                (/\ proc' = "state" /\ IsCompleted(event', j, m)
                 /\ j \in DOMAIN state_watched_jids)
                => (/\ Len(yielded') = 1
                    /\ yielded'[1].start_time = state_watched_jids[j].stamp)]_vars

\* C13 witness: two records of one jid with different start stamps: the jid
\* was started, completed, started again with another stamp and completed
C13_Witness ==
    /\ proc = "state" /\ path = "ret_yield"
    /\ \E i \in DOMAIN state_forwarded :
          /\ state_forwarded[i].data.jid = yielded[1].data.jid
          /\ state_forwarded[i].start_time # yielded[1].start_time
    /\ yielded[1].start_time = state_watched_jids[TagJid(event.tag)].stamp

\* start, end and duration of a record built from the stored start event
\* `start` at the completion event `ev`
Timed(r, start, ev) ==
    /\ r.start_time = start.stamp
    /\ r.end_time = ev.stamp
    /\ r.duration = ev.stamp - start.stamp
    /\ (r.end_time >= r.start_time => r.duration >= 0)

\* C14: in both variants a record built for a completion has start = the
\* stamp of the start event stored for the jid at that moment, end = the
\* stamp of the completion event, and duration = end - start, which is
\* non-negative whenever end >= start.
C14_StartEndDuration ==
    [][\A j \in Jids, m \in Minions :
          /\ (proc' = "job" /\ ValidCompletion(event', j, m))
             => (/\ Built # {}
                 /\ \A r \in Built : Timed(r, watched_jids[j].event, event'))
          /\ (/\ proc' = "state" /\ IsCompleted(event', j, m)
               /\ j \in DOMAIN state_watched_jids)
             => (/\ Len(yielded') = 1
                 /\ Timed(yielded'[1], state_watched_jids[j], event'))]_vars

\* C14 witness: job_aggregate has just built (and deferred) a record whose
\* completion is stamped after its start
C14_Witness ==
    /\ proc = "job" /\ path = "ret_defer"
    /\ \E r \in waiting_for_grains :
          /\ r.id = nextId - 1
          /\ r.start_time = 10 /\ r.end_time = 20 /\ r.duration = 10

\* C15: (job_aggregate) every jid in the registry has a non-empty expected
\* set, also right after a JobStarted whose responder list is empty (a
\* function has one entry per jid, so a jid appears at most once).
C15_TrackedJobsExpectSomeone ==
    \A j \in DOMAIN watched_jids : watched_jids[j].minions # {}

\* C16: (job_aggregate) a pending record is not touched while it is pending
\* (its attributes stay empty), and when it is emitted its data, minion id,
\* start, end and duration are those it was built with: only its attributes
\* are assigned, once, in the step that emits it.
C16_DeferredRecordKeepsFields ==
    [][\A r \in waiting_for_grains :
          /\ r.grains = NoGrains
          /\ r.duration = r.end_time - r.start_time
          /\ \A p \in waiting_for_grains' : p.id = r.id => p = r
          /\ \A i \in DOMAIN yielded' :
                yielded'[i].id = r.id
                => (/\ yielded'[i].data = r.data
                    /\ yielded'[i].minion_id = r.minion_id
                    /\ yielded'[i].start_time = r.start_time
                    /\ yielded'[i].end_time = r.end_time
                    /\ yielded'[i].duration = r.duration
                    /\ yielded'[i].grains = event'.grains
                    /\ r.id \notin Ids(waiting_for_grains'))
          /\ \A i \in DOMAIN forwarded' :
                forwarded'[i].id = r.id => i > Len(forwarded)]_vars

\* C16 witness: a deferred record has just been emitted with non-empty attributes
C16_Witness ==
    /\ proc = "job" /\ path = "grains"
    /\ Len(yielded) = 1
    /\ yielded[1].grains = {<<"os", "linux">>}
    /\ yielded[1].duration = yielded[1].end_time - yielded[1].start_time
    /\ yielded[1].data.id = yielded[1].minion_id

\* C17: (job_aggregate) right after an EnrichmentUpdated for a responder the
\* pending set holds no record of that responder, and holds every record that
\* was pending for another responder, unmodified.
C17_ReleaseEmptiesOneResponder ==
    [][\A m \in Minions :
          (proc' = "job" /\ IsEnrichment(event', m))
          => waiting_for_grains' = {r \in waiting_for_grains : r.minion_id # m}]_vars

\* C17 witness: an EnrichmentUpdated has just released a record while a record
\* of another responder stays pending
C17_Witness ==
    /\ proc = "job" /\ path = "grains"
    /\ Len(yielded) >= 1
    /\ waiting_for_grains # {}
    /\ \A r \in waiting_for_grains : r.minion_id # event.minion

\* C18: (job_aggregate) one event's container mutations are one uninterrupted
\* step: whenever process() is suspended at a yield of the release loop (a
\* record has been handed downstream), no other record of that release is
\* still in the pending set.
C18_NoYieldBetweenMutations ==
    gen # NoGen => \A i \in DOMAIN gen.todo : gen.todo[i] \notin waiting_for_grains

\* C19: (job_aggregate) between events, a responder with a pending record has
\* no non-empty attribute map in the enrichment store.
C19_NoPendingWithUsableEnrichment ==
    \A r \in waiting_for_grains :
        r.minion_id \notin DOMAIN grains \/ grains[r.minion_id] = {}

\* C19 witness: a record is pending for a responder whose stored map is empty,
\* while another responder has a non-empty map
C19_Witness ==
    /\ \E r \in waiting_for_grains :
          r.minion_id \in DOMAIN grains /\ grains[r.minion_id] = {}
    /\ \E m \in DOMAIN grains : grains[m] # {}

\* C20: (job_aggregate) an EnrichmentUpdated(m, {}) emits every record pending
\* for m, each with empty attributes, and removes it from the pending set; but
\* while the stored map of m is empty a valid completion of m emits nothing
\* and defers its record, which then waits for the next EnrichmentUpdated for m.
C20_EmptyEnrichmentReleasesOnly ==
    [][\A m \in Minions :
          /\ (proc' = "job" /\ IsEnrichment(event', m) /\ event'.grains = {})
             => (/\ m \in DOMAIN grains' /\ grains'[m] = {}
                 /\ \A r \in waiting_for_grains :
                       r.minion_id = m
                       => (/\ r.id \in Ids(Range(yielded'))
                           /\ r.id \notin Ids(waiting_for_grains'))
                 /\ \A i \in DOMAIN yielded' :
                       /\ yielded'[i].grains = {} /\ yielded'[i].minion_id = m
                       /\ yielded'[i].id \in Ids(waiting_for_grains))
          /\ \A j \in Jids :
                (/\ proc' = "job" /\ ValidCompletion(event', j, m)
                 /\ m \in DOMAIN grains /\ grains[m] = {})
                => (/\ yielded' = << >>
                    /\ forwarded' = forwarded
                    /\ \E r \in waiting_for_grains' :
                          /\ r.id = nextId /\ r.minion_id = m /\ r.grains = {}
                          /\ waiting_for_grains' = waiting_for_grains \cup {r})
          /\ \A r \in waiting_for_grains :
                (r.minion_id = m /\ ~(proc' = "job" /\ IsEnrichment(event', m)))
                => r \in waiting_for_grains']_vars

\* C20 witness: an empty EnrichmentUpdated released a record of the responder
\* (emitted with empty attributes), and a later valid completion of the same
\* responder has just been deferred
C20_Witness ==
    /\ proc = "job" /\ path = "ret_defer"
    /\ TagMinion(event.tag) \in DOMAIN grains
    /\ grains[TagMinion(event.tag)] = {}
    /\ \E i \in DOMAIN forwarded :
          forwarded[i].minion_id = TagMinion(event.tag) /\ forwarded[i].grains = {}
    /\ \E r \in waiting_for_grains : r.id = nextId - 1 /\ r.minion_id = TagMinion(event.tag)

====
